---------------------------- MODULE Spec2Model ----------------------------
(***************************************************************************)
(* Loan-intake application (src/streamlit_app.py): one Streamlit script    *)
(* run per user interaction.  A run renders the application form, scores   *)
(* a valid submission through the cached get_prediction, writes the        *)
(* session state, renders the results and then the email section.          *)
(*                                                                         *)
(* Text that the code strips, joins, replaces or formats is a sequence of  *)
(* one-character strings.  An f-string with a long literal part is a       *)
(* record [fmt, args]: the literal named by fmt, the interpolated values   *)
(* in args.  Probabilities and strengths are in thousandths.               *)
(***************************************************************************)
EXTENDS Integers, Sequences, FiniteSets, TLC

\* ------------------------------------------------------------ bounds
\* Number of interactive sessions served by the one server process.
NumSessions == 2
\* The clock stops advancing here (seconds).
MaxClock == 300

\* ------------------------------------------------------------ constants
\* @st.cache_data(ttl=300) on get_prediction.
TTL == 300
\* risk_score > 0.5, in thousandths.
RiskThreshold == 500
\* for i in range(1, 5) in create_shap_chart: ranks 1..4.
ChartTopN == 4
\* for i in range(1, 4) in generate_email: ranks 1..3.
EmailTopN == 3

Sessions == 1..NumSessions
\* Seconds by which the clock advances in one step.
TickSteps == {150}

\* ------------------------------------------------------------ text
Whitespace == {" ", "\t", "\n"}

RECURSIVE LStrip(_)
LStrip(s) ==
    IF s = <<>> THEN s
    ELSE IF Head(s) \in Whitespace THEN LStrip(Tail(s)) ELSE s

RECURSIVE RStrip(_)
RStrip(s) ==
    IF s = <<>> THEN s
    ELSE IF s[Len(s)] \in Whitespace THEN RStrip(SubSeq(s, 1, Len(s) - 1)) ELSE s

\* str.strip()
Strip(s) == RStrip(LStrip(s))

\* str.replace(old, new): leftmost non-overlapping occurrences.
RECURSIVE Replace(_, _, _)
Replace(s, old, new) ==
    IF Len(s) < Len(old) THEN s
    ELSE IF SubSeq(s, 1, Len(old)) = old
         THEN new \o Replace(SubSeq(s, Len(old) + 1, Len(s)), old, new)
         ELSE <<Head(s)>> \o Replace(Tail(s), old, new)

\* sep.join(lines)
RECURSIVE Join(_, _)
Join(sep, lines) ==
    IF lines = <<>> THEN <<>>
    ELSE IF Len(lines) = 1 THEN lines[1]
    ELSE lines[1] \o sep \o Join(sep, Tail(lines))

Digit(d) ==
    CASE d = 0 -> "0" [] d = 1 -> "1" [] d = 2 -> "2" [] d = 3 -> "3"
      [] d = 4 -> "4" [] d = 5 -> "5" [] d = 6 -> "6" [] d = 7 -> "7"
      [] d = 8 -> "8" [] d = 9 -> "9"

\* str(n) of a non-negative integer, as interpolated by an f-string.
RECURSIVE Str(_)
Str(n) == IF n < 10 THEN <<Digit(n)>> ELSE Str(n \div 10) \o <<Digit(n % 10)>>

\* ------------------------------------------------------------ exceptions
\* A call either returns a value or raises: exc names the exception.
Ok(v) == [exc |-> "none", val |-> <<v>>]
Raise(e) == [exc |-> e, val |-> <<>>]

\* ------------------------------------------------------------ field mapper
EmpLengthOptions == {"0 - 5 years", "6 - 10 years", "11+ years"}
AnnualIncOptions == {"Below $30k", "$30k - $60k", "Above $60k"}
LoanAmountOptions == {5000, 15000, 20000}
TermOptions == {36, 60}

emp_length_map ==
    [b \in EmpLengthOptions |->
        CASE b = "0 - 5 years" -> 0 [] b = "6 - 10 years" -> 6 [] b = "11+ years" -> 10]

annual_inc_map ==
    [b \in AnnualIncOptions |->
        CASE b = "Below $30k" -> 15000 [] b = "$30k - $60k" -> 40000
          [] b = "Above $60k" -> 100000]

FeatureIds == {<<"l", "o", "a", "n", "_", "a", "m", "n", "t">>, <<"t", "e", "r", "m">>, <<"e", "m", "p", "_", "l", "e", "n", "g", "t", "h">>, <<"a", "n", "n", "u", "a", "l", "_", "i", "n", "c">>}

feature_name_map ==
    [f \in FeatureIds |->
        CASE f = <<"l", "o", "a", "n", "_", "a", "m", "n", "t">> -> <<"L", "o", "a", "n", " ", "A", "m", "o", "u", "n", "t">>
          [] f = <<"t", "e", "r", "m">> -> <<"R", "e", "p", "a", "y", "m", "e", "n", "t", " ", "P", "e", "r", "i", "o", "d">>
          [] f = <<"e", "m", "p", "_", "l", "e", "n", "g", "t", "h">> -> <<"E", "m", "p", "l", "o", "y", "m", "e", "n", "t", " ", "Y", "e", "a", "r", "s">>
          [] f = <<"a", "n", "n", "u", "a", "l", "_", "i", "n", "c">> -> <<"A", "n", "n", "u", "a", "l", " ", "I", "n", "c", "o", "m", "e">>]

\* ------------------------------------------------------------ data frames
\* A frame is [nrows, cols, request]: cols maps each column present to its
\* value in row 0.  request is instrumentation: the row the job was given.
InputCol(name) == <<name, 0, "">>
PredCol == <<"is_bad_1_PREDICTION", 0, "">>
ExplCol(i, suffix) == <<"EXPLANATION", i, suffix>>
ExplSuffixes == {"FEATURE_NAME", "ACTUAL_VALUE", "STRENGTH"}

\* df[c].iloc[0]
Iloc0(df, c) ==
    IF c \notin DOMAIN df.cols THEN Raise("KeyError")
    ELSE IF df.nrows = 0 THEN Raise("IndexError")
    ELSE Ok(df.cols[c])

\* scoring_data of get_prediction: the single request row.
ScoringData(loan_amt, term, emp_length, annual_inc) ==
    [loan_amnt |-> loan_amt, term |-> term,
     emp_length |-> emp_length_map[emp_length],
     annual_inc |-> annual_inc_map[annual_inc]]

\* ------------------------------------------------------------ scoring service
\* The remote deployment's ranking of the four schema features and their
\* strengths (rank 1 first).
ServiceRanking ==
    <<[feature |-> "loan_amnt", strength |-> -300],
      [feature |-> "term", strength |-> 100],
      [feature |-> "emp_length", strength |-> 50],
      [feature |-> "annual_inc", strength |-> -20]>>

FeatureText(name) ==
    CASE name = "loan_amnt" -> <<"l", "o", "a", "n", "_", "a", "m", "n", "t">> [] name = "term" -> <<"t", "e", "r", "m">>
      [] name = "emp_length" -> <<"e", "m", "p", "_", "l", "e", "n", "g", "t", "h">> [] name = "annual_inc" -> <<"a", "n", "n", "u", "a", "l", "_", "i", "n", "c">>

\* The result frame of a job: the request row passed through, the
\* prediction column when has_pred, the three columns of each rank in ranks.
Frame(scoring_data, ranks, has_pred, prob, nrows) ==
    LET cols == {InputCol(n) : n \in {"loan_amnt", "term", "emp_length", "annual_inc"}}
                \cup (IF has_pred THEN {PredCol} ELSE {})
                \cup {ExplCol(i, x) : i \in ranks, x \in ExplSuffixes}
        value(c) ==
            IF c[1] = "EXPLANATION"
            THEN CASE c[3] = "FEATURE_NAME" -> FeatureText(ServiceRanking[c[2]].feature)
                   [] c[3] = "ACTUAL_VALUE" -> scoring_data[ServiceRanking[c[2]].feature]
                   [] c[3] = "STRENGTH" -> ServiceRanking[c[2]].strength
            ELSE IF c = PredCol THEN prob
            ELSE scoring_data[c[1]]
    IN [nrows |-> nrows, cols |-> [c \in cols |-> value(c)], request |-> scoring_data]

\* What dr.BatchPredictionJob.score_pandas can do with one request row:
\* raise (connection or authentication failure, failed job), or return a
\* frame: complete, with ranks 1 and 2 only, without the prediction column,
\* or with no row.
ScoreKinds ==
    {"unavailable", "job_failed", "complete", "two_ranks", "no_prediction", "no_rows"}

ScoreOutcome(kind, scoring_data) ==
    CASE kind = "unavailable" -> Raise("ScoringServiceUnavailable")
      [] kind = "job_failed" -> Raise("ScoringJobFailed")
      [] kind = "complete" -> Ok(Frame(scoring_data, 1..4, TRUE, 720, 1))
      [] kind = "two_ranks" -> Ok(Frame(scoring_data, 1..2, TRUE, 500, 1))
      [] kind = "no_prediction" -> Ok(Frame(scoring_data, 1..4, FALSE, 0, 1))
      [] kind = "no_rows" -> Ok(Frame(scoring_data, 1..4, TRUE, 720, 0))

\* ------------------------------------------------------------ state
VARIABLES
    session_state,  \* st.session_state of each session: key -> value
    cache,          \* st.cache_data store of get_prediction: key -> entry
    clock,          \* seconds since the server started
    view            \* what the last script run did and rendered

vars == <<session_state, cache, clock, view>>

\* The empty mapping: no key of session state set, no cache entry.
Empty == [k \in {} |-> {}]

\* ------------------------------------------------------------ application form
\* Mutant of render_application_form: the name is tested without strip().
render_application_form_nostrip(submitted, client, loan_amt, term, emp_length, annual_inc, acknowledgement) ==
    IF ~submitted THEN [error |-> "none", app_data |-> <<>>]
    ELSE IF client = <<>>
    THEN [error |-> "Please enter applicant name", app_data |-> <<>>]
    ELSE IF ~acknowledgement
    THEN [error |-> "Please accept Terms and Conditions", app_data |-> <<>>]
    ELSE [error |-> "none",
          app_data |-> <<[client |-> client, loan_amt |-> loan_amt, term |-> term,
                          emp_length |-> emp_length, annual_inc |-> annual_inc]>>]

\* render_application_form: None unless the form was submitted with a
\* non-blank name and the terms accepted.
render_application_form(submitted, client, loan_amt, term, emp_length, annual_inc, acknowledgement) ==
    IF ~submitted THEN [error |-> "none", app_data |-> <<>>]
    ELSE IF Strip(client) = <<>>
    THEN [error |-> "Please enter applicant name", app_data |-> <<>>]
    ELSE IF ~acknowledgement
    THEN [error |-> "Please accept Terms and Conditions", app_data |-> <<>>]
    ELSE [error |-> "none",
          app_data |-> <<[client |-> client, loan_amt |-> loan_amt, term |-> term,
                          emp_length |-> emp_length, annual_inc |-> annual_inc]>>]

\* ------------------------------------------------------------ scoring
\* Mutant of CacheKey: the income bucket is left out of the key.
CacheKey_no_income(loan_amt, term, emp_length, annual_inc) ==
    <<loan_amt, term, emp_length, "">>

\* st.cache_data keys an entry by the function's arguments.
CacheKey(loan_amt, term, emp_length, annual_inc) ==
    <<loan_amt, term, emp_length, annual_inc>>

\* An entry is served until it is ttl seconds old.
CacheFresh(entry, now) == now - entry.stored_at < TTL

\* A call of get_prediction is answered from the cache.
CacheHit(c, now, key) == key \in DOMAIN c /\ CacheFresh(c[key], now)

\* get_prediction through its cache, in a run of session s.  outcome is
\* what the remote job does when the body runs.  A raised exception is not
\* cached.  stored_by is instrumentation: the session whose run stored the
\* entry.
get_prediction(c, now, s, loan_amt, term, emp_length, annual_inc, outcome) ==
    LET key == CacheKey(loan_amt, term, emp_length, annual_inc)
    IN IF CacheHit(c, now, key)
       THEN [result |-> Ok(c[key].value), cache |-> c,
             cache_hit |-> TRUE, remote_called |-> FALSE]
       ELSE [result |-> outcome,
             cache |-> IF outcome.exc # "none" THEN c
                       ELSE [k \in DOMAIN c \cup {key} |->
                                IF k = key
                                THEN [value |-> outcome.val[1], stored_at |-> now,
                                      stored_by |-> s]
                                ELSE c[k]],
             cache_hit |-> FALSE, remote_called |-> TRUE]

\* ------------------------------------------------------------ chart
\* f"{feature_name}: {feature_value}"
BarLabel(feature_name, feature_value) ==
    feature_name \o <<":", " ">> \o Str(feature_value)

BarColor(x) == IF x < 0 THEN "#e74c3c" ELSE "#27ae60"

\* The loop of create_shap_chart from rank i on: a rank whose
\* FEATURE_NAME column is absent is skipped.
RECURSIVE ChartLoop(_, _, _, _)
ChartLoop(df, i, features, impacts) ==
    IF i > ChartTopN THEN Ok([y |-> features, x |-> impacts])
    ELSE IF ExplCol(i, "FEATURE_NAME") \notin DOMAIN df.cols
    THEN ChartLoop(df, i + 1, features, impacts)
    ELSE LET feature_name == Iloc0(df, ExplCol(i, "FEATURE_NAME"))
             feature_value == Iloc0(df, ExplCol(i, "ACTUAL_VALUE"))
             impact == Iloc0(df, ExplCol(i, "STRENGTH"))
         IN IF feature_name.exc # "none" THEN Raise(feature_name.exc)
            ELSE IF feature_value.exc # "none" THEN Raise(feature_value.exc)
            ELSE IF impact.exc # "none" THEN Raise(impact.exc)
            ELSE ChartLoop(df, i + 1,
                           Append(features,
                                  BarLabel(feature_name.val[1], feature_value.val[1])),
                           Append(impacts, impact.val[1]))

create_shap_chart(df) ==
    LET data == ChartLoop(df, 1, <<>>, <<>>)
    IN IF data.exc # "none" THEN data
       ELSE Ok([y |-> data.val[1].y, x |-> data.val[1].x,
                marker_color |-> [j \in 1..Len(data.val[1].x) |->
                                     BarColor(data.val[1].x[j])]])

\* ------------------------------------------------------------ results
RiskLabel(risk_score) == IF risk_score > RiskThreshold THEN "High" ELSE "Low"

\* display_results: what is rendered before it returns or raises.
display_results(app_data, df) ==
    LET risk_score == Iloc0(df, PredCol)
        fig == create_shap_chart(df)
    IN IF risk_score.exc # "none"
       THEN [exc |-> risk_score.exc, summary |-> <<>>, risk |-> "none", chart |-> <<>>]
       ELSE [exc |-> fig.exc,
             summary |-> <<[applicant |-> app_data.client,
                            loan_amount |-> app_data.loan_amt,
                            term |-> app_data.term,
                            risk_score |-> risk_score.val[1]]>>,
             risk |-> RiskLabel(risk_score.val[1]),
             chart |-> fig.val]

\* ------------------------------------------------------------ email drafting
\* get_openai_client builds AzureOpenAI(...), a name the module does not
\* import (lines 9-16): where the name is unbound the call raises
\* NameError, where the deployment binds it the client is returned.
ClientOutcomes == {Ok("client"), Raise("NameError")}

\* client_openai.chat.completions.create: the completion's text, or an
\* exception of the service.
ChatOutcomes == {Ok(<<"D", "e", "a", "r", " ", "B", "o", "b", ",", " ", "w", "e", " ", "r", "e", "g", "r", "e", "t">>), Raise("APIConnectionError")}

\* str(e) of an exception of the text-generation call.
ExcText(e) == IF e = "APIConnectionError" THEN <<"C", "o", "n", "n", "e", "c", "t", "i", "o", "n", " ", "e", "r", "r", "o", "r", ".">> ELSE <<"e", "r", "r", "o", "r">>

\* The approval template: one interpolated field, the applicant name.
ApprovalTemplate(client) ==
    [fmt |-> "Dear {client}, ... your loan application has been approved! ...",
     args |-> <<client>>]

\* The lines "- {feat_name}: {feat_val}" of ranks i..3; no rank is skipped.
RECURSIVE EmailLoop(_, _, _)
EmailLoop(df, i, explanations) ==
    IF i > EmailTopN THEN Ok(explanations)
    ELSE LET feat_name == Iloc0(df, ExplCol(i, "FEATURE_NAME"))
             feat_val == Iloc0(df, ExplCol(i, "ACTUAL_VALUE"))
         IN IF feat_name.exc # "none" THEN Raise(feat_name.exc)
            ELSE IF feat_val.exc # "none" THEN Raise(feat_val.exc)
            ELSE EmailLoop(df, i + 1,
                           Append(explanations,
                                  <<"-", " ">> \o feat_name.val[1] \o <<":", " ">>
                                      \o Str(feat_val.val[1])))

\* exp_str: the joined lines after the four replacements, in the code's order.
ExpStr(explanations) ==
    Replace(Replace(Replace(Replace(Join(<<"\n">>, explanations),
        <<"l", "o", "a", "n", "_", "a", "m", "n", "t">>, <<"l", "o", "a", "n", " ", "a", "m", "o", "u", "n", "t">>),
        <<"e", "m", "p", "_", "l", "e", "n", "g", "t", "h">>, <<"e", "m", "p", "l", "o", "y", "m", "e", "n", "t", " ", "t", "e", "n", "u", "r", "e">>),
        <<"t", "e", "r", "m">>, <<"l", "o", "a", "n", " ", "t", "e", "r", "m">>),
        <<"a", "n", "n", "u", "a", "l", "_", "i", "n", "c">>, <<"a", "n", "n", "u", "a", "l", " ", "i", "n", "c", "o", "m", "e">>)

RejectionPrompt(client, exp_str) ==
    [fmt |-> "Generate a professional loan rejection email for {client}. ... {exp_str} ... Dear {client}, ...",
     args |-> <<client, exp_str, client>>]

\* Mutant of generate_email: the client is obtained before the decision is
\* looked at.
generate_email_client_first(client, df, decision, client_outcome, chat_outcome) ==
    IF client_outcome.exc # "none"
    THEN [exc |-> client_outcome.exc, val |-> <<>>,
          client_requested |-> TRUE, chat_request |-> <<>>]
    ELSE [exc |-> "none", val |-> <<ApprovalTemplate(client)>>,
          client_requested |-> TRUE, chat_request |-> <<>>]

\* generate_email.  client_outcome and chat_outcome are what the two
\* external calls do if they are made.  The result says whether the client
\* was requested and which prompt, if any, was sent.
generate_email(client, df, decision, client_outcome, chat_outcome) ==
    IF decision = "Approve"
    THEN [exc |-> "none", val |-> <<ApprovalTemplate(client)>>,
          client_requested |-> FALSE, chat_request |-> <<>>]
    ELSE IF client_outcome.exc # "none"
    THEN [exc |-> client_outcome.exc, val |-> <<>>,
          client_requested |-> TRUE, chat_request |-> <<>>]
    ELSE LET explanations == EmailLoop(df, 1, <<>>)
             prompt == RejectionPrompt(client, ExpStr(explanations.val[1]))
         IN IF explanations.exc # "none"
            THEN [exc |-> explanations.exc, val |-> <<>>,
                  client_requested |-> TRUE, chat_request |-> <<>>]
            ELSE IF chat_outcome.exc # "none"
            THEN [exc |-> "none",
                  val |-> <<[fmt |-> "Error generating email: {str(e)}",
                             args |-> <<ExcText(chat_outcome.exc)>>]>>,
                  client_requested |-> TRUE, chat_request |-> <<prompt>>]
            ELSE [exc |-> "none",
                  val |-> <<[fmt |-> "{content}", args |-> <<chat_outcome.val[1]>>]>>,
                  client_requested |-> TRUE, chat_request |-> <<prompt>>]

\* Mutant of render_email_section: the form is rendered without looking for
\* a stored result.
render_email_section_unguarded(ss, clicked, decision, client_outcome, chat_outcome) ==
    LET nothing == [email_warning |-> FALSE, email_form |-> FALSE, decision |-> "none",
                    client_requested |-> FALSE, chat_request |-> <<>>,
                    email_content |-> <<>>, fault |-> "none"]
    IN IF ~clicked THEN [nothing EXCEPT !.email_form = TRUE]
       ELSE IF "app_data" \notin DOMAIN ss
       THEN [nothing EXCEPT !.email_form = TRUE, !.decision = decision,
                            !.fault = "AttributeError"]
       ELSE LET email == generate_email(ss["app_data"].client, ss["prediction_data"],
                                        decision, client_outcome, chat_outcome)
            IN [email_warning |-> FALSE, email_form |-> TRUE, decision |-> decision,
                client_requested |-> email.client_requested,
                chat_request |-> email.chat_request,
                email_content |-> email.val, fault |-> email.exc]

\* render_email_section on session state ss.  clicked: the email form's
\* button was pressed in this run, with this decision.
render_email_section(ss, clicked, decision, client_outcome, chat_outcome) ==
    LET nothing == [email_warning |-> FALSE, email_form |-> FALSE, decision |-> "none",
                    client_requested |-> FALSE, chat_request |-> <<>>,
                    email_content |-> <<>>, fault |-> "none"]
    IN IF "prediction_data" \notin DOMAIN ss
       THEN [nothing EXCEPT !.email_warning = TRUE]
       ELSE IF ~clicked THEN [nothing EXCEPT !.email_form = TRUE]
       ELSE IF "app_data" \notin DOMAIN ss
       THEN [nothing EXCEPT !.email_form = TRUE, !.decision = decision,
                            !.fault = "AttributeError"]
       ELSE LET email == generate_email(ss["app_data"].client, ss["prediction_data"],
                                        decision, client_outcome, chat_outcome)
            IN [email_warning |-> FALSE, email_form |-> TRUE, decision |-> decision,
                client_requested |-> email.client_requested,
                chat_request |-> email.chat_request,
                email_content |-> email.val, fault |-> email.exc]

\* ------------------------------------------------------------ session state
\* Mutant of StoreCycle: the two keys are written to one state that all
\* sessions share.
StoreCycle_global(all, s, df, app_data) ==
    [x \in DOMAIN all |->
        [k \in DOMAIN all[x] \cup {"prediction_data", "app_data"} |->
            CASE k = "prediction_data" -> df
              [] k = "app_data" -> app_data
              [] OTHER -> all[x][k]]]

\* st.session_state.prediction_data = df; st.session_state.app_data = app_data
StoreCycle(all, s, df, app_data) ==
    [all EXCEPT ![s] = [k \in DOMAIN all[s] \cup {"prediction_data", "app_data"} |->
                           CASE k = "prediction_data" -> df
                             [] k = "app_data" -> app_data
                             [] OTHER -> all[s][k]]]

\* ------------------------------------------------------------ inputs
Names == {<<>>, <<" ", " ">>, <<"B", "o", "b">>}
SubmittedTuples ==
    {<<20000, 60, "11+ years", "Above $60k">>, <<20000, 60, "11+ years", "Below $30k">>}
Decisions == {"Approve", "Reject"}

\* ------------------------------------------------------------ script runs
\* The part of a run's record that scoring fills, when no scoring happens.
NoScoring == [scoring_invoked |-> FALSE, remote_called |-> FALSE, cache_hit |-> FALSE,
              served |-> <<>>, app_error |-> "none", summary |-> <<>>,
              risk |-> "none", chart |-> <<>>]

\* The part of a run's record that render_email_section fills, with the
\* email form's button not pressed.
EmailIdle(ss) == render_email_section(ss, FALSE, "none", Raise("none"), Raise("none"))

\* The part of a run's record that says whose run it was, what the user did
\* (kind; the fields submitted; the decision asked for) and what the
\* application form reported.
RunHead(s, kind, now, fields, asked, form_error) ==
    [session |-> s, kind |-> kind, at |-> now, fields |-> fields, asked |-> asked,
     form_error |-> form_error]

Init ==
    /\ session_state = [s \in {1} |-> Empty]
    /\ cache = Empty
    /\ clock = 0
    /\ view = RunHead(1, "none", 0, <<>>, "none", "none") @@ NoScoring @@ EmailIdle(Empty)

\* main() with no form submitted: a page load or a rerun.
Rerun(s) ==
    /\ view' = RunHead(s, "rerun", clock, <<>>, "none",
                       render_application_form(FALSE, <<>>, 0, 0, "", "", FALSE).error)
               @@ NoScoring @@ EmailIdle(session_state[s])
    /\ UNCHANGED <<session_state, cache, clock>>

\* main() from line 346 on, with app_data returned by the form: the
\* scoring cycle, then the email section.
ScoringCycle(s, head, app_data, outcome) ==
    LET p == get_prediction(cache, clock, s, app_data.loan_amt, app_data.term,
                            app_data.emp_length, app_data.annual_inc, outcome)
        scoring == [scoring_invoked |-> TRUE, remote_called |-> p.remote_called,
                    cache_hit |-> p.cache_hit]
    IN /\ cache' = p.cache
       /\ clock' = clock
       /\ IF p.result.exc # "none"
          THEN /\ session_state' = session_state
               /\ view' = head @@ scoring
                            @@ [NoScoring EXCEPT !.app_error = p.result.exc]
                            @@ EmailIdle(session_state[s])
          ELSE LET df == p.result.val[1]
                   shown == display_results(app_data, df)
               IN /\ session_state' = StoreCycle(session_state, s, df, app_data)
                  /\ view' = head @@ scoring
                               @@ [served |-> <<df>>, app_error |-> shown.exc,
                                   summary |-> shown.summary, risk |-> shown.risk,
                                   chart |-> shown.chart]
                               @@ EmailIdle(session_state'[s])

\* main() with the application form submitted, the fields drawn from
\* names, SubmittedTuples and acks, the remote job's behaviour from kinds.
SubmitApplicationIn(s, names, acks, kinds) ==
    \E client \in names, t \in SubmittedTuples, acknowledgement \in acks :
        LET form == render_application_form(TRUE, client, t[1], t[2], t[3], t[4],
                                            acknowledgement)
            head == RunHead(s, "submit", clock,
                            <<[client |-> client, loan_amt |-> t[1], term |-> t[2],
                               emp_length |-> t[3], annual_inc |-> t[4],
                               acknowledgement |-> acknowledgement]>>,
                            "none", form.error)
        IN IF form.app_data = <<>>
           THEN /\ view' = head @@ NoScoring @@ EmailIdle(session_state[s])
                /\ UNCHANGED <<session_state, cache, clock>>
           ELSE \E kind \in IF CacheHit(cache, clock, CacheKey(t[1], t[2], t[3], t[4]))
                            THEN {"complete"} ELSE kinds :
                    ScoringCycle(s, head, form.app_data[1],
                                 ScoreOutcome(kind, ScoringData(t[1], t[2], t[3], t[4])))

\* main() with the email form's button pressed.
SubmitEmailIn(s, decisions, client_outcomes, chat_outcomes) ==
    \E decision \in decisions, client_outcome \in client_outcomes,
       chat_outcome \in chat_outcomes :
        /\ view' = RunHead(s, "email", clock, <<>>, decision,
                           render_application_form(FALSE, <<>>, 0, 0, "", "", FALSE).error)
                   @@ NoScoring
                   @@ render_email_section(session_state[s], TRUE, decision,
                                           client_outcome, chat_outcome)
        /\ UNCHANGED <<session_state, cache, clock>>

SubmitApplication(s) == SubmitApplicationIn(s, Names, BOOLEAN, ScoreKinds)
SubmitEmail(s) == SubmitEmailIn(s, Decisions, ClientOutcomes, ChatOutcomes)

\* Time passes.
Tick ==
    \E d \in TickSteps :
        /\ clock + d <= MaxClock
        /\ clock' = clock + d
        /\ UNCHANGED <<session_state, cache, view>>

\* One session.
Next ==
    \/ Rerun(1)
    \/ SubmitApplication(1)
    \/ SubmitEmail(1)
    \/ Tick

Spec == Init /\ [][Next]_vars

\* ------------------------------------------------------------ several sessions
\* NumSessions sessions of one server process: each has its own session
\* state, all share the st.cache_data store of get_prediction.  Submissions
\* are valid, the remote job completes or is unavailable, and the
\* text-generation client is not obtained.
InitSessions ==
    /\ session_state = [s \in Sessions |-> Empty]
    /\ cache = Empty
    /\ clock = 0
    /\ view = RunHead(1, "none", 0, <<>>, "none", "none") @@ NoScoring @@ EmailIdle(Empty)

NextSessions ==
    \/ \E s \in Sessions : Rerun(s)
    \/ \E s \in Sessions :
          SubmitApplicationIn(s, {<<"B", "o", "b">>}, {TRUE}, {"complete", "unavailable"})
    \/ \E s \in Sessions :
          SubmitEmailIn(s, Decisions, {Raise("NameError")}, {Raise("APIConnectionError")})
    \/ Tick

SpecSessions == InitSessions /\ [][NextSessions]_vars

\* ------------------------------------------------------------ properties
\* A step in which a script run took place and left a record other than
\* the previous run's.
RunStep == view' # view

\* The name consists of whitespace only (or of nothing).
IsBlank(name) == \A i \in 1..Len(name) : name[i] \in Whitespace

\* The tuple of the fields a run submitted.
TupleOf(f) == <<f.loan_amt, f.term, f.emp_length, f.annual_inc>>

\* The request row the scoring schema prescribes for the fields.
RequestOf(f) ==
    [loan_amnt |-> f.loan_amt, term |-> f.term,
     emp_length |-> CASE f.emp_length = "0 - 5 years" -> 0
                      [] f.emp_length = "6 - 10 years" -> 6
                      [] f.emp_length = "11+ years" -> 10,
     annual_inc |-> CASE f.annual_inc = "Below $30k" -> 15000
                      [] f.annual_inc = "$30k - $60k" -> 40000
                      [] f.annual_inc = "Above $60k" -> 100000]

HasResult(ss) == "prediction_data" \in DOMAIN ss
HasApplication(ss) == "app_data" \in DOMAIN ss

\* The ranks among 1..n all three of whose columns the frame has, ascending.
RECURSIVE RanksFrom(_, _, _)
RanksFrom(df, i, n) ==
    IF i > n THEN <<>>
    ELSE IF \A x \in ExplSuffixes : ExplCol(i, x) \in DOMAIN df.cols
         THEN <<i>> \o RanksFrom(df, i + 1, n)
         ELSE RanksFrom(df, i + 1, n)

\* C1: a scoring cycle that a valid submission started and that failed
\* (the remote call raised, or the result had no row or lacked a column)
\* leaves the session state exactly as it was.
C1_FailedCycleLeavesStoreUnchanged ==
    [][(RunStep /\ view'.kind = "submit" /\ view'.scoring_invoked
            /\ view'.app_error # "none")
        => session_state' = session_state]_vars

\* C2: a run of a session whose store holds no scoring result neither
\* obtains the text-generation client nor sends a prompt, and a drafting
\* request in such a run ends in the 'submit an application first' warning,
\* with no draft and no fault.
C2_NoDraftingCallOnEmptyStore ==
    [][(RunStep /\ ~HasResult(session_state[view'.session]))
        => /\ ~view'.client_requested
           /\ view'.chat_request = <<>>
           /\ view'.kind = "email"
                => /\ view'.email_warning
                   /\ view'.email_content = <<>>
                   /\ view'.fault = "none"]_vars

\* C2 witness: a Reject drafting request made on an empty store was
\* answered by the warning.
C2_Witness ==
    /\ view.kind = "email" /\ view.asked = "Reject"
    /\ ~HasResult(session_state[view.session])
    /\ view.email_warning /\ ~view.client_requested

\* C3: a Reject drafting run on a stored result (one with a row and the
\* columns of ranks 1..3, so that only the text-generation step can fail)
\* never ends in a fault and always shows a draft, whatever obtaining the
\* client and the chat-completion call do.
C3_RejectAlwaysShowsDraft ==
    (/\ view.kind = "email" /\ view.decision = "Reject"
     /\ session_state[view.session]["prediction_data"].nrows > 0
     /\ RanksFrom(session_state[view.session]["prediction_data"], 1, 3) = <<1, 2, 3>>)
        => (view.fault = "none" /\ Len(view.email_content) = 1)

\* C4: a submission with a blank or whitespace-only name, or without the
\* terms accepted, does not invoke get_prediction or the remote service and
\* changes neither the session state nor the cache; a run that invokes
\* get_prediction submitted a non-blank name with the terms accepted.
C4_InvalidSubmissionNeverScores ==
    [][(RunStep /\ view'.kind = "submit")
        => LET f == view'.fields[1]
               invalid == IsBlank(f.client) \/ ~f.acknowledgement
           IN /\ invalid => /\ ~view'.scoring_invoked
                            /\ ~view'.remote_called
                            /\ session_state' = session_state
                            /\ cache' = cache
              /\ view'.scoring_invoked => ~invalid]_vars

\* C4 witness: a whitespace-only name was submitted with the terms
\* accepted, and the run did not score.
C4_Witness ==
    /\ view.kind = "submit"
    /\ view.fields[1].client # <<>> /\ IsBlank(view.fields[1].client)
    /\ view.fields[1].acknowledgement
    /\ ~view.scoring_invoked /\ view.form_error # "none"

\* C5: a valid submission whose exact tuple has an entry younger than 300
\* seconds is served that entry's result without a remote call; a
\* submission is served from the cache only from such an entry; every
\* result served was obtained for the submitted tuple; and a result
\* obtained from the remote service is stored under that tuple with the
\* current time.
C5_CacheKeyedByTupleWithinWindow ==
    [][(RunStep /\ view'.kind = "submit" /\ view'.scoring_invoked)
        => LET f == view'.fields[1]
               k == TupleOf(f)
               fresh == k \in DOMAIN cache /\ clock - cache[k].stored_at < 300
           IN /\ fresh => /\ view'.cache_hit
                          /\ ~view'.remote_called
                          /\ view'.served = <<cache[k].value>>
                          /\ cache' = cache
              /\ view'.cache_hit => fresh
              /\ ~fresh => view'.remote_called
              /\ view'.served # <<>> => view'.served[1].request = RequestOf(f)
              /\ (view'.remote_called /\ view'.served # <<>>)
                    => /\ k \in DOMAIN cache'
                       /\ cache'[k].value = view'.served[1]
                       /\ cache'[k].stored_at = clock]_vars

\* C5 witness: a submission made 150 seconds after its tuple was scored
\* was served from the cache, while the other tuple was cached as well.
C5_Witness ==
    /\ view.kind = "submit" /\ view.cache_hit /\ view.at = 150
    /\ cache[TupleOf(view.fields[1])].stored_at = 0
    /\ Cardinality(DOMAIN cache) = 2

\* C6: on every stored result that has a row, the chart's extraction
\* (topN = 4) and the email's (topN = 3) both succeed and yield one entry
\* per rank present among 1..topN, in ascending rank order.
C6_ExtractionSkipsAbsentRanks ==
    \A s \in DOMAIN session_state :
        (HasResult(session_state[s]) /\ session_state[s]["prediction_data"].nrows > 0)
        => LET df == session_state[s]["prediction_data"]
               chart == ChartLoop(df, 1, <<>>, <<>>)
               lines == EmailLoop(df, 1, <<>>)
               r4 == RanksFrom(df, 1, 4)
               r3 == RanksFrom(df, 1, 3)
           IN /\ chart.exc = "none"
              /\ chart.val[1].x = [j \in 1..Len(r4) |-> df.cols[ExplCol(r4[j], "STRENGTH")]]
              /\ lines.exc = "none"
              /\ Len(lines.val[1]) = Len(r3)

\* C7: an Approve drafting run on a stored result ends without a fault,
\* neither obtains the client nor sends a prompt, and shows the fixed
\* template with the stored applicant name as its one interpolated value.
C7_ApproveReturnsTemplate ==
    (view.kind = "email" /\ view.asked = "Approve"
        /\ HasResult(session_state[view.session]))
    => /\ view.fault = "none"
       /\ ~view.client_requested
       /\ view.chat_request = <<>>
       /\ view.decision = "Approve"
       /\ Len(view.email_content) = 1
       /\ view.email_content[1].fmt = ApprovalTemplate(<<>>).fmt
       /\ view.email_content[1].args
            = <<session_state[view.session]["app_data"].client>>

\* C7 witness: an Approve draft was shown for the stored applicant.
C7_Witness ==
    /\ view.kind = "email" /\ view.asked = "Approve"
    /\ HasResult(session_state[view.session])
    /\ Len(view.email_content) = 1
    /\ view.email_content[1].args = <<<<"B", "o", "b">>>>

\* C8: in every session the stored application and the stored result are
\* both absent or both present, and the store changes only in a scoring
\* cycle of that session that succeeded, to that cycle's application and
\* result.
C8_StoreHoldsLastSuccessfulCycle ==
    [][\A s \in DOMAIN session_state :
        /\ HasResult(session_state'[s]) <=> HasApplication(session_state'[s])
        /\ session_state'[s] # session_state[s]
             => /\ view'.kind = "submit" /\ view'.session = s
                /\ view'.scoring_invoked
                /\ view'.app_error = "none"
                /\ session_state'[s]["prediction_data"] = view'.served[1]
                /\ TupleOf(session_state'[s]["app_data"]) = TupleOf(view'.fields[1])
                /\ session_state'[s]["app_data"].client = view'.fields[1].client]_vars

\* C9: a run of one session changes no other session's store, and a
\* submission is answered from the cache only by an entry that the same
\* session's own run stored.
C9_SessionsIndependent ==
    [][RunStep
        => /\ \A s \in DOMAIN session_state :
                s # view'.session => session_state'[s] = session_state[s]
           /\ (view'.kind = "submit" /\ view'.cache_hit)
                => cache[TupleOf(view'.fields[1])].stored_by = view'.session]_vars

\* C9 as amended: a session's store changes only in that session's own
\* submission run; a run of another session never changes it.
C9_SessionStoresIndependent ==
    [][\A s \in DOMAIN session_state :
        session_state'[s] # session_state[s]
            => (view'.session = s /\ view'.kind = "submit")]_vars

\* C9 witness: two sessions hold different cycles, and the last run, a
\* submission, was served the result another session's run had obtained.
C9_Witness ==
    /\ view.kind = "submit" /\ view.cache_hit
    /\ cache[TupleOf(view.fields[1])].stored_by # view.session
    /\ \E s \in DOMAIN session_state :
          /\ s # view.session
          /\ HasResult(session_state[s])
          /\ session_state[s] # session_state[view.session]

\* C10: every chart bar is labelled with the display label that
\* feature_name_map gives for its feature identifier, followed by the
\* observed value; every factor line of a prompt sent carries that label
\* and value as well.
C10_EntriesCarryDisplayLabels ==
    /\ view.chart # <<>>
         => LET df == view.served[1]
                r == RanksFrom(df, 1, 4)
            IN view.chart[1].y
                 = [j \in 1..Len(r) |->
                       feature_name_map[df.cols[ExplCol(r[j], "FEATURE_NAME")]]
                       \o <<":", " ">> \o Str(df.cols[ExplCol(r[j], "ACTUAL_VALUE")])]
    /\ view.chat_request # <<>>
         => LET df == session_state[view.session]["prediction_data"]
                r == RanksFrom(df, 1, 3)
            IN view.chat_request[1].args[2]
                 = Join(<<"\n">>,
                        [j \in 1..Len(r) |->
                            <<"-", " ">> \o feature_name_map[df.cols[ExplCol(r[j], "FEATURE_NAME")]]
                            \o <<":", " ">> \o Str(df.cols[ExplCol(r[j], "ACTUAL_VALUE")])])

=============================================================================
